---- MODULE Spec2Model ----
(***************************************************************************)
(* Audit-sourced temporal reconstruction of the personal library:          *)
(* change capture in updateBook, the audit query getAuditLogs, and the     *)
(* backward replay of wasBookNeverUsedAtTime (src/src/app/lib/db.ts and    *)
(* src/src/app/api/analytics/never-used/route.ts).                         *)
(*                                                                         *)
(* Time is a counter of clock ticks; a database timestamp is the tick at   *)
(* which the row was inserted.  In Spec the requests are served one at a   *)
(* time: an updateBook call runs in steps (read, write, one step per audit *)
(* append) between which the clock may advance, and the other requests run *)
(* when no updateBook call is in flight.                                   *)
(***************************************************************************)
EXTENDS Integers, Sequences, FiniteSets, TLC

\* ----------------------------------------------------------------- bounds
MaxTime == 2
MaxRequests == 2
MaxTable == 2
MaxDay == 28
MaxContainers == 3

\* ------------------------------------------------------- program constants
DefaultLimit == 50
SnapshotLimit == 1000
Weeks == 12
DaysPerWeek == 7

\* ---------------------------------------------------------------- values
BookIds == {"1", "2"}
UserIds == {"1", "2"}
UserNames == {"alice", "bob", "carol"}
CallIds == {1, 2}

NULL == "<null>"
Undefined == "<undefined>"
\* Number.NaN: every ordering comparison with it is false; it is kept apart
\* from the counters of the model by being negative.
NaN == -1000000

trackedFields == <<"state", "owner", "current_possessor", "times_read">>
TrackedSet == {trackedFields[i] : i \in 1..Len(trackedFields)}
BookFields == {"author", "state", "owner", "current_possessor", "times_read", "date_added"}

\* String(value) of a number, and parseInt(text), on the decimal numerals the
\* model uses.
Numerals == <<"0", "1", "2", "3", "4">>

NumberToString(n) ==
  IF n = NaN THEN "NaN"
  ELSE IF n >= 0 /\ n < Len(Numerals) THEN Numerals[n + 1]
  ELSE IF n < 0 /\ (-n) < Len(Numerals) THEN "-" \o Numerals[1 - n]
  ELSE "?"

parseInt(s) ==
  IF \E n \in 1..Len(Numerals) : Numerals[n] = s
  THEN (CHOOSE n \in 1..Len(Numerals) : Numerals[n] = s) - 1
  ELSE IF \E n \in 2..Len(Numerals) : "-" \o Numerals[n] = s
  THEN 1 - (CHOOSE n \in 2..Len(Numerals) : "-" \o Numerals[n] = s)
  ELSE NaN

\* String(book[field]): times_read is the only numeric tracked field
String(field, v) == IF field = "times_read" THEN NumberToString(v) ELSE v

\* ------------------------------------------------------------------ state
VARIABLES
  USE_SQLITE,   \* which store the process was started with
  clock,        \* current time, in ticks
  books,        \* books table: id -> row
  users,        \* users table: id -> name
  audit_logs,   \* audit_logs table, in insertion order; id = position
  calls,        \* updateBook calls: position, arguments, locals
  nrequests,    \* number of writing requests served or begun
  response,     \* what the last read-only request returned
  history,      \* ghost: per book and field, the values the row held and since when
  appliedAt,    \* ghost: per audit event, the tick at which its row write was applied
  auditFailed,  \* ghost: books for which a createAuditLog call has thrown
  analytics,    \* GET /api/analytics/never-used in progress: position and locals
  containers    \* containers table: id -> row

vars == <<USE_SQLITE, clock, books, users, audit_logs, calls, nrequests, response,
          history, appliedAt, auditFailed, analytics, containers>>

HistoryFields == {"state", "owner", "current_possessor", "times_read"}

NoRow == [author |-> NULL, state |-> "", owner |-> "", current_possessor |-> "",
          times_read |-> 0, date_added |-> 0]
NoUpdates == [k \in {} |-> 0]
IdleCall == [pc |-> "idle", id |-> "", updates |-> NoUpdates, existingBook |-> NoRow,
             next |-> 1, appended |-> <<>>, wroteAt |-> 0, error |-> "", before |-> NoRow]
NoResponse == [op |-> "none"]
IdleAnalytics == [pc |-> "idle", userFilter |-> NULL, books |-> NoUpdates,
                  neverUsedFlags |-> NoUpdates]

\* A library seeded through createUser and createBook at tick 0.
SeedBook(owner) ==
  [author |-> "A1", state |-> "In library", owner |-> owner,
   current_possessor |-> owner, times_read |-> 0, date_added |-> 0]

SeedHistory(row) == [f \in HistoryFields |-> <<[t |-> 0, v |-> row[f], by |-> "createBook"]>>]

\* The containers table after initializeDatabase: the Household container,
\* at the top level.
ContainerIds == {NumberToString(n) : n \in 1..MaxContainers}
ContainerNames == {"Box", "Shelf"}
SeedContainers ==
  [c \in {"1"} |-> [name |-> "Household", parent_container_id |-> NULL,
                    is_household |-> TRUE]]

Init ==
  /\ USE_SQLITE \in BOOLEAN
  /\ clock = 0
  /\ books = [b \in BookIds |-> IF b = "1" THEN SeedBook("alice") ELSE SeedBook("bob")]
  /\ users = [u \in UserIds |-> IF u = "1" THEN "alice" ELSE "bob"]
  /\ audit_logs = <<>>
  /\ calls = [p \in CallIds |-> IdleCall]
  /\ nrequests = 0
  /\ response = NoResponse
  /\ history = [b \in BookIds |-> SeedHistory(books[b])]
  /\ appliedAt = <<>>
  /\ auditFailed = {}
  /\ analytics = IdleAnalytics
  /\ containers = SeedContainers

\* ------------------------------------------------------------------ clock
Tick ==
  /\ response = NoResponse
  /\ clock < MaxTime
  /\ clock' = clock + 1
  /\ UNCHANGED <<USE_SQLITE, containers, analytics, books, users, audit_logs, calls, nrequests, response,
                 history, appliedAt, auditFailed>>

\* ------------------------------------------------------------- updateBook
\* The request bodies PUT /api/books/[id] passes on, after its sanitising:
\* an absent key is a key the body did not have; an optional field the body
\* had as an empty string arrives present with the value undefined.
UpdateInputs ==
  { [times_read |-> 1], [times_read |-> 2],
    [current_possessor |-> "bob"],
    [owner |-> "bob", current_possessor |-> "bob"],
    [state |-> "In library"],
    [author |-> Undefined],
    [author |-> "A2", times_read |-> 1] }

\* The PUT requests of the model: any of the bodies for book 1, one for book 2.
UpdateRequests ==
  ({"1"} \X UpdateInputs) \cup {<<"2", [times_read |-> 1]>>}

\* value !== undefined
IsDefined(updates, key) ==
  /\ key \in DOMAIN updates
  /\ (key # "times_read" => updates[key] # Undefined)

DefinedKeys(updates) == {k \in DOMAIN updates : IsDefined(updates, k)}

\* getBookById
getBookById(id) == IF id \in DOMAIN books THEN books[id] ELSE NoRow

\* The row the SQLite path leaves: SET key = ? for the defined keys only.
SqliteRow(row, updates) ==
  [k \in DOMAIN row |-> IF IsDefined(updates, k) THEN updates[k] ELSE row[k]]

\* updatedData = {...existingBook, ...updates}: a present key overrides, also
\* when its value is undefined.
MergedData(existingBook, updates) ==
  [k \in DOMAIN existingBook |-> IF k \in DOMAIN updates THEN updates[k] ELSE existingBook[k]]

\* value || null, for the optional text columns
OrNull(v) == IF v \in {Undefined, "", NULL} THEN NULL ELSE v

\* The row the Postgres path leaves: every column is SET from updatedData.
PostgresRow(existingBook, updates) ==
  [MergedData(existingBook, updates) EXCEPT !.author = OrNull(@)]

\* NOT NULL columns of the row the Postgres path writes
PostgresRejects(existingBook, updates) ==
  \E k \in {"state", "owner", "current_possessor"} :
    MergedData(existingBook, updates)[k] = Undefined

\* A variant that logs every tracked field the update carries.
NeedsAuditAlways(existingBook, updates, field) == IsDefined(updates, field)

\* newValue !== undefined && String(oldValue) !== String(newValue)
NeedsAudit(existingBook, updates, field) ==
  /\ IsDefined(updates, field)
  /\ String(field, existingBook[field]) # String(field, updates[field])

\* Positions of trackedFields, from position `from` on, that the loop logs.
PendingFields(existingBook, updates, from) ==
  {i \in from..Len(trackedFields) : NeedsAudit(existingBook, updates, trackedFields[i])}

Min(S) == CHOOSE x \in S : \A y \in S : x <= y
Max(S) == CHOOSE x \in S : \A y \in S : x >= y

InFlight(p) == calls[p].pc \in {"write", "audit"}

\* No request is being served: the next one can begin.
Quiet ==
  /\ \A p \in CallIds : ~InFlight(p)
  /\ response = NoResponse

\* Ghost: the row changes of one write, appended to the history of the book.
Recorded(hist, old, new, by) ==
  [f \in HistoryFields |->
     IF new[f] # old[f] THEN Append(hist[f], [t |-> clock, v |-> new[f], by |-> by])
     ELSE hist[f]]

\* updateBook, up to and including `existingBook = await getBookById(id)`,
\* whatever else is under way.
UpdateBookBegin(p, id, updates) ==
  /\ nrequests < MaxRequests
  /\ nrequests' = nrequests + 1
  /\ calls' = [calls EXCEPT ![p] =
       IF id \in DOMAIN books
       THEN [IdleCall EXCEPT !.pc = "write", !.id = id, !.updates = updates,
                             !.existingBook = getBookById(id)]
       ELSE [IdleCall EXCEPT !.pc = "failed", !.id = id, !.updates = updates,
                             !.error = "Book not found"]]
  /\ response' = NoResponse
  /\ UNCHANGED <<USE_SQLITE, containers, analytics, clock, books, users, audit_logs, history, appliedAt, auditFailed>>

\* The call of a request that is served when no other is.
UpdateBookRead(p, id, updates) ==
  /\ Quiet
  /\ UpdateBookBegin(p, id, updates)

\* After the row write: on to the audit loop, or the return when it logs nothing.
AfterWrite(c) ==
  LET pending == PendingFields(c.existingBook, c.updates, 1)
  IN  IF pending = {}
      THEN [c EXCEPT !.pc = "done", !.wroteAt = clock, !.next = Len(trackedFields) + 1]
      ELSE [c EXCEPT !.pc = "audit", !.wroteAt = clock, !.next = Min(pending)]

\* updateBook: the UPDATE of the books row.
UpdateBookWrite(p) ==
  LET c == calls[p]
      rejected == \/ c.id \notin DOMAIN books
                  \/ USE_SQLITE /\ DefinedKeys(c.updates) = {}
                  \/ ~USE_SQLITE /\ PostgresRejects(c.existingBook, c.updates)
  IN
  /\ c.pc = "write"
  /\ IF rejected
     THEN /\ calls' = [calls EXCEPT ![p] = [c EXCEPT !.pc = "failed",
                          !.error = IF c.id \notin DOMAIN books THEN "Book not found"
                                    ELSE IF USE_SQLITE THEN "No fields to update"
                                    ELSE "not-null constraint"]]
          /\ UNCHANGED <<books, history>>
     ELSE LET row == IF USE_SQLITE THEN SqliteRow(books[c.id], c.updates)
                     ELSE PostgresRow(c.existingBook, c.updates)
          IN /\ books' = [books EXCEPT ![c.id] = row]
             /\ history' = [history EXCEPT ![c.id] = Recorded(@, books[c.id], row, "updateBook")]
             /\ calls' = [calls EXCEPT ![p] = [AfterWrite(c) EXCEPT !.before = books[c.id]]]
  /\ UNCHANGED <<USE_SQLITE, containers, analytics, clock, users, audit_logs, nrequests, response, appliedAt, auditFailed>>

\* A createAuditLog that stores the new value in the old_value column.
NewAuditLogSwapped(log) ==
  [id |-> Len(audit_logs) + 1,
   changed_field |-> log.changed_field,
   old_value |-> log.new_value,
   new_value |-> log.new_value,
   changed_by |-> log.changed_by,
   timestamp |-> clock,
   book_id |-> log.book_id]

\* createAuditLog: the INSERT; the store sets id and timestamp. The id is the
\* AUTOINCREMENT rowid on SQLite; on Postgres it is a random UUID, which the
\* model names by the position of the row.
NewAuditLog(log) ==
  [id |-> Len(audit_logs) + 1,
   changed_field |-> log.changed_field,
   old_value |-> log.old_value,
   new_value |-> log.new_value,
   changed_by |-> log.changed_by,
   timestamp |-> clock,
   book_id |-> log.book_id]

\* updateBook: one iteration of the audit loop that logs a field.
UpdateBookAudit(p) ==
  LET c == calls[p]
      field == trackedFields[c.next]
      log == NewAuditLog([changed_field |-> field,
                          old_value |-> String(field, c.existingBook[field]),
                          new_value |-> String(field, c.updates[field]),
                          changed_by |-> "system",
                          book_id |-> c.id])
      pending == PendingFields(c.existingBook, c.updates, c.next + 1)
  IN
  /\ c.pc = "audit"
  /\ audit_logs' = Append(audit_logs, log)
  /\ appliedAt' = Append(appliedAt, c.wroteAt)
  /\ calls' = [calls EXCEPT ![p] =
       [c EXCEPT !.appended = Append(@, log.id),
                 !.pc = IF pending = {} THEN "done" ELSE "audit",
                 !.next = IF pending = {} THEN Len(trackedFields) + 1 ELSE Min(pending)]]
  /\ UNCHANGED <<USE_SQLITE, containers, analytics, clock, books, users, nrequests, response, history, auditFailed>>

\* A variant that undoes the row write when createAuditLog throws.
UpdateBookAuditFailRollback(p) ==
  LET c == calls[p] IN
  /\ c.pc = "audit"
  /\ calls' = [calls EXCEPT ![p] = [c EXCEPT !.pc = "failed", !.error = "createAuditLog"]]
  /\ auditFailed' = auditFailed \cup {c.id}
  /\ books' = [books EXCEPT ![c.id] = c.existingBook]
  /\ UNCHANGED <<USE_SQLITE, containers, analytics, clock, users, audit_logs, nrequests, response,
                 history, appliedAt>>

\* updateBook: createAuditLog throws; the catch logs and rethrows.
UpdateBookAuditFail(p) ==
  LET c == calls[p] IN
  /\ c.pc = "audit"
  /\ calls' = [calls EXCEPT ![p] = [c EXCEPT !.pc = "failed", !.error = "createAuditLog"]]
  /\ auditFailed' = auditFailed \cup {c.id}
  /\ UNCHANGED <<USE_SQLITE, containers, analytics, clock, books, users, audit_logs, nrequests, response,
                 history, appliedAt>>

\* ------------------------------------------------------------ other writers
Served == [p \in CallIds |-> IdleCall]

\* UPDATE books SET owner = to WHERE owner = from, then the same for
\* current_possessor.
Renamed(row, from, to) ==
  [row EXCEPT !.owner = IF @ = from THEN to ELSE @,
              !.current_possessor = IF @ = from THEN to ELSE @]

AllRenamed(from, to) == [b \in DOMAIN books |-> Renamed(books[b], from, to)]

\* PUT /api/users/[id] and updateUser: the rename and its cascade over books.
UpdateUser(id, newName) ==
  LET oldName == users[id]
      newBooks == IF newName # "" /\ newName # oldName
                  THEN AllRenamed(oldName, newName) ELSE books
  IN
  /\ Quiet
  /\ nrequests < MaxRequests
  /\ id \in DOMAIN users
  /\ newName # ""
  /\ nrequests' = nrequests + 1
  /\ users' = [users EXCEPT ![id] = newName]
  /\ books' = newBooks
  /\ history' = [b \in DOMAIN history |->
       IF b \in DOMAIN books
       THEN Recorded(history[b], books[b], newBooks[b], "updateUser") ELSE history[b]]
  /\ calls' = Served
  /\ response' = NoResponse
  /\ UNCHANGED <<USE_SQLITE, containers, analytics, clock, audit_logs, appliedAt, auditFailed>>

\* reassignUserBooks: the SQLite statements bind toUserId where the Postgres
\* statements bind toUser.name.
reassignUserBooks(fromUserId, toUserId) ==
  AllRenamed(users[fromUserId], IF USE_SQLITE THEN toUserId ELSE users[toUserId])

UserBooks(name) ==
  {b \in DOMAIN books : books[b].owner = name \/ books[b].current_possessor = name}

\* DELETE /api/users/[id]?reassignTo=...: reassign when the user has books,
\* then deleteUser.  reassignTo = "" is a request without the parameter.
DeleteUser(id, reassignTo) ==
  LET hasBooks == UserBooks(users[id]) # {}
      newBooks == IF hasBooks THEN reassignUserBooks(id, reassignTo) ELSE books
  IN
  /\ Quiet
  /\ nrequests < MaxRequests
  /\ id \in DOMAIN users
  /\ hasBooks => reassignTo \in DOMAIN users
  /\ nrequests' = nrequests + 1
  /\ books' = newBooks
  /\ users' = [u \in DOMAIN users \ {id} |-> users[u]]
  /\ history' = [b \in DOMAIN history |->
       IF b \in DOMAIN books
       THEN Recorded(history[b], books[b], newBooks[b], "reassignUserBooks") ELSE history[b]]
  /\ calls' = Served
  /\ response' = NoResponse
  /\ UNCHANGED <<USE_SQLITE, containers, analytics, clock, audit_logs, appliedAt, auditFailed>>

\* A variant that deletes the audit events of the book with it.
DeleteBookAndLogs(id) ==
  /\ Quiet
  /\ nrequests < MaxRequests
  /\ id \in DOMAIN books
  /\ nrequests' = nrequests + 1
  /\ books' = [b \in DOMAIN books \ {id} |-> books[b]]
  /\ audit_logs' = SelectSeq(audit_logs, LAMBDA log : log.book_id # id)
  /\ calls' = Served
  /\ response' = NoResponse
  /\ UNCHANGED <<USE_SQLITE, containers, analytics, clock, users, history, appliedAt, auditFailed>>

\* DELETE /api/books/[id] and deleteBook: the books row goes, nothing else.
DeleteBook(id) ==
  /\ Quiet
  /\ nrequests < MaxRequests
  /\ id \in DOMAIN books
  /\ nrequests' = nrequests + 1
  /\ books' = [b \in DOMAIN books \ {id} |-> books[b]]
  /\ calls' = Served
  /\ response' = NoResponse
  /\ UNCHANGED <<USE_SQLITE, containers, analytics, clock, users, audit_logs, history, appliedAt, auditFailed>>

\* ------------------------------------------------------------ getAuditLogs
\* const limit = filters?.limit || 50
EffectiveLimit(filters) ==
  IF "limit" \in DOMAIN filters /\ filters.limit \notin {0, NaN}
  THEN filters.limit ELSE DefaultLimit

\* The WHERE clause: each filter applies when its value is truthy, eventType
\* also only when it is not 'all'.
Matches(log, filters) ==
  /\ ("eventType" \in DOMAIN filters /\ filters.eventType \notin {"", "all"})
        => log.changed_field = filters.eventType
  /\ ("bookId" \in DOMAIN filters /\ filters.bookId # "")
        => log.book_id = filters.bookId

Matching(table, filters) == {i \in 1..Len(table) : Matches(table[i], filters)}

\* ORDER BY timestamp DESC: every order of the rows in which the timestamps
\* do not increase; rows of equal timestamp come in whatever order the store
\* produces.  The rows are split at a timestamp between the oldest and the
\* newest until all rows of a part have the same one.
RECURSIVE TieOrders(_, _)
TieOrders(table, S) ==
  IF S = {} THEN {<<>>}
  ELSE UNION {{<<table[i]>> \o rest : rest \in TieOrders(table, S \ {i})} : i \in S}

RECURSIVE DescOrders(_, _)
DescOrders(table, S) ==
  IF S = {} THEN {<<>>}
  ELSE LET oldest == Min({table[i].timestamp : i \in S})
           newest == 0 - Min({0 - table[i].timestamp : i \in S})
           middle == (oldest + newest) \div 2
       IN  IF oldest = newest THEN TieOrders(table, S)
           ELSE {newer \o older :
                   newer \in DescOrders(table, {i \in S : table[i].timestamp > middle}),
                   older \in DescOrders(table, {i \in S : table[i].timestamp <= middle})}

\* LIMIT n.  SQLite reads a negative LIMIT as no limit; Postgres rejects it.
LimitRejected(limit, sqlite) == limit < 0 /\ ~sqlite

Limited(rows, limit) ==
  IF limit < 0 \/ limit >= Len(rows) THEN rows ELSE SubSeq(rows, 1, limit)

\* getAuditLogs(filters): the results the call can return; an empty set of
\* results stands for the call throwing.
getAuditLogs(table, filters, sqlite) ==
  LET limit == EffectiveLimit(filters)
  IN  IF LimitRejected(limit, sqlite) THEN {}
      ELSE {Limited(rows, limit) : rows \in DescOrders(table, Matching(table, filters))}

\* -------------------------------------------------- wasBookNeverUsedAtTime
\* A variant that also counts a log written at the checkpoint itself.
IsAfterOrAt(log, snapshotDate) == log.timestamp >= snapshotDate

\* new Date(log.timestamp) > snapshotDate. Timestamps and checkpoints are
\* ticks of one clock: the stored text is read back as the instant it was
\* written at, which is so when the process runs in the store's time zone
\* (UTC).
IsAfter(log, snapshotDate) == log.timestamp > snapshotDate

logsAfterSnapshot(allLogs, snapshotDate) ==
  SelectSeq(allLogs, LAMBDA log : IsAfter(log, snapshotDate))

FieldLogs(logs, field) == SelectSeq(logs, LAMBDA log : log.changed_field = field)

Reverse(seq) == [i \in 1..Len(seq) |-> seq[Len(seq) + 1 - i]]

\* A variant that reads the list without reversing it.
NewestLog(logs) == logs[1]

\* for (const log of logs.reverse()) { ...; break }: the log the loop reads
ClosestLog(logs) == Reverse(logs)[1]

\* A variant that does not replay times_read.
timesReadNow(book, logsAfter) == book.times_read

timesReadAtSnapshot(book, logsAfter) ==
  LET timesReadLogsAfter == FieldLogs(logsAfter, "times_read")
  IN  IF Len(timesReadLogsAfter) > 0
      THEN parseInt(ClosestLog(timesReadLogsAfter).old_value)
      ELSE book.times_read

possessorAtSnapshot(book, logsAfter) ==
  LET possessorLogsAfter == FieldLogs(logsAfter, "current_possessor")
  IN  IF Len(possessorLogsAfter) > 0
      THEN ClosestLog(possessorLogsAfter).old_value
      ELSE book.current_possessor

ownerAtSnapshot(book, logsAfter) ==
  LET ownerLogsAfter == FieldLogs(logsAfter, "owner")
  IN  IF Len(ownerLogsAfter) > 0
      THEN ClosestLog(ownerLogsAfter).old_value
      ELSE book.owner

\* What one call computes: the values it reconstructs and the flag it returns.
\* logged is what the call writes to the console: it has no statement that
\* writes, whatever parseInt gave.
\* After the early return for a book that had been read, possessor and owner
\* are not reconstructed.
Snapshot(id, book, snapshotDate, allLogs) ==
  LET after == logsAfterSnapshot(allLogs, snapshotDate)
      timesRead == timesReadAtSnapshot(book, after)
      possessor == possessorAtSnapshot(book, after)
      owner == ownerAtSnapshot(book, after)
  IN  [op |-> "wasBookNeverUsedAtTime", id |-> id, book |-> book,
       snapshotDate |-> snapshotDate, allLogs |-> allLogs,
       timesReadAtSnapshot |-> timesRead,
       logged |-> <<>>,
       reconstructed |-> IF timesRead > 0 THEN {"times_read"}
                         ELSE {"times_read", "current_possessor", "owner"},
       possessorAtSnapshot |-> IF timesRead > 0 THEN Undefined ELSE possessor,
       ownerAtSnapshot |-> IF timesRead > 0 THEN Undefined ELSE owner,
       result |-> IF timesRead > 0 THEN FALSE ELSE possessor = owner]

\* wasBookNeverUsedAtTime(book, snapshotDate), for a book of getAllBooks that
\* existed at the checkpoint.
WasBookNeverUsedAtTime(id, snapshotDate) ==
  /\ Quiet
  /\ id \in DOMAIN books
  /\ books[id].date_added <= snapshotDate
  /\ \E allLogs \in getAuditLogs(audit_logs, [bookId |-> id, limit |-> SnapshotLimit], USE_SQLITE) :
       response' = Snapshot(id, books[id], snapshotDate, allLogs)
  /\ UNCHANGED <<USE_SQLITE, containers, analytics, clock, books, users, audit_logs, calls, nrequests,
                 history, appliedAt, auditFailed>>

\* The response of a read-only request goes out.
Respond ==
  /\ response # NoResponse
  /\ response' = NoResponse
  /\ UNCHANGED <<USE_SQLITE, containers, analytics, clock, books, users, audit_logs, calls, nrequests,
                 history, appliedAt, auditFailed>>

\* GET /api/audit-logs and getAuditLogs(filters): the rows returned, or the
\* error when the store rejects the query.
GetAuditLogs(filters) ==
  LET results == getAuditLogs(audit_logs, filters, USE_SQLITE) IN
  /\ Quiet
  /\ IF results = {}
     THEN response' = [op |-> "getAuditLogs", filters |-> filters, ok |-> FALSE, rows |-> <<>>]
     ELSE \E rows \in results :
            response' = [op |-> "getAuditLogs", filters |-> filters, ok |-> TRUE, rows |-> rows]
  /\ UNCHANGED <<USE_SQLITE, containers, analytics, clock, books, users, audit_logs, calls, nrequests,
                 history, appliedAt, auditFailed>>

\* The filters of the model: each key absent or present.
QueryFilters ==
  {eventType @@ bookId @@ limit :
     eventType \in {NoUpdates, "eventType" :> "all", "eventType" :> "times_read",
                    "eventType" :> "owner"},
     bookId \in {NoUpdates, "bookId" :> "1"},
     limit \in {NoUpdates, "limit" :> 0, "limit" :> 1, "limit" :> 2, "limit" :> (-1),
                "limit" :> NaN}}

\* The audit tables updateBook calls leave behind when they change times_read
\* between 0 and 1 and owner between alice and bob: for each event its field,
\* book and tick, ticks not decreasing in insertion order.
RawTables ==
  {raw \in UNION {[1..n -> {"times_read", "owner"} \X BookIds \X (0..MaxTime)] : n \in 0..MaxTable} :
     \A i \in 1..(Len(raw) - 1) : raw[i][3] <= raw[i + 1][3]}

ValueAfter(raw, field, id, n) ==
  LET flips == Cardinality({j \in 1..n : raw[j][1] = field /\ raw[j][2] = id})
      first == IF field = "times_read" THEN "0" ELSE IF id = "1" THEN "alice" ELSE "bob"
      other == IF field = "times_read" THEN "1" ELSE IF id = "1" THEN "bob" ELSE "alice"
  IN  IF flips % 2 = 0 THEN first ELSE other

TableOf(raw) ==
  [i \in 1..Len(raw) |->
     [id |-> i,
      changed_field |-> raw[i][1],
      old_value |-> ValueAfter(raw, raw[i][1], raw[i][2], i - 1),
      new_value |-> ValueAfter(raw, raw[i][1], raw[i][2], i),
      changed_by |-> "system",
      timestamp |-> raw[i][3],
      book_id |-> raw[i][2]]]

BooksOf(raw) ==
  [b \in BookIds |->
     [SeedBook(IF b = "1" THEN "alice" ELSE "bob") EXCEPT
        !.times_read = parseInt(ValueAfter(raw, "times_read", b, Len(raw))),
        !.owner = ValueAfter(raw, "owner", b, Len(raw))]]

HistoryOf(raw, id, field) ==
  LET mine == SelectSeq([i \in 1..Len(raw) |-> i],
                        LAMBDA i : raw[i][1] = field /\ raw[i][2] = id)
      new(i) == ValueAfter(raw, field, id, i)
  IN  <<[t |-> 0, v |-> SeedBook(IF id = "1" THEN "alice" ELSE "bob")[field], by |-> "createBook"]>>
      \o [k \in 1..Len(mine) |->
            [t |-> raw[mine[k]][3],
             v |-> IF field = "times_read" THEN parseInt(new(mine[k])) ELSE new(mine[k]),
             by |-> "updateBook"]]

InitQuery ==
  /\ USE_SQLITE \in BOOLEAN
  /\ \E raw \in RawTables :
       /\ audit_logs = TableOf(raw)
       /\ books = BooksOf(raw)
       /\ history = [b \in BookIds |-> [f \in HistoryFields |-> HistoryOf(raw, b, f)]]
       /\ appliedAt = [i \in 1..Len(raw) |-> raw[i][3]]
       /\ clock = IF Len(raw) = 0 THEN 0 ELSE raw[Len(raw)][3]
  /\ users = [u \in UserIds |-> IF u = "1" THEN "alice" ELSE "bob"]
  /\ calls = [p \in CallIds |-> IdleCall]
  /\ nrequests = 0
  /\ response = NoResponse
  /\ auditFailed = {}
  /\ analytics = IdleAnalytics
  /\ containers = SeedContainers

\* A book with more audit events than one fetch of wasBookNeverUsedAtTime
\* returns: book "1" changed owner from alice to bob at tick 1 and then had
\* times_read set to 1 and back to 0 again and again, one tick apart.
OverLimit == SnapshotLimit + 1

LongTable ==
  [i \in 1..OverLimit |->
     [id |-> i,
      changed_field |-> IF i = 1 THEN "owner" ELSE "times_read",
      old_value |-> IF i = 1 THEN "alice" ELSE IF i % 2 = 0 THEN "0" ELSE "1",
      new_value |-> IF i = 1 THEN "bob" ELSE IF i % 2 = 0 THEN "1" ELSE "0",
      changed_by |-> "system",
      timestamp |-> i,
      book_id |-> "1"]]

LongHistory(id, field) ==
  <<[t |-> 0, v |-> SeedBook(IF id = "1" THEN "alice" ELSE "bob")[field], by |-> "createBook"]>>
  \o (IF id # "1" THEN <<>>
      ELSE IF field = "owner" THEN <<[t |-> 1, v |-> "bob", by |-> "updateBook"]>>
      ELSE IF field = "times_read"
      THEN [k \in 1..SnapshotLimit |->
              [t |-> k + 1, v |-> parseInt(LongTable[k + 1].new_value), by |-> "updateBook"]]
      ELSE <<>>)

InitLong ==
  /\ USE_SQLITE \in BOOLEAN
  /\ audit_logs = LongTable
  /\ books = [b \in BookIds |->
       IF b = "1" THEN [SeedBook("alice") EXCEPT !.owner = "bob"] ELSE SeedBook("bob")]
  /\ history = [b \in BookIds |-> [f \in HistoryFields |-> LongHistory(b, f)]]
  /\ appliedAt = [i \in 1..OverLimit |-> i]
  /\ clock = OverLimit
  /\ users = [u \in UserIds |-> IF u = "1" THEN "alice" ELSE "bob"]
  /\ calls = [p \in CallIds |-> IdleCall]
  /\ nrequests = 0
  /\ response = NoResponse
  /\ auditFailed = {}
  /\ analytics = IdleAnalytics
  /\ containers = SeedContainers

\* Libraries with short histories, and the one with the long history.
InitWindow == InitQuery \/ InitLong

\* ---------------------------------------------------------- isBookNeverUsed
\* book.times_read === 0 && book.current_possessor === book.owner
NeverUsed(book) == book.times_read = 0 /\ book.current_possessor = book.owner

\* isBookNeverUsed(bookId): false for a book that is not in the table
isBookNeverUsed(bookId) ==
  LET book == getBookById(bookId)
  IN  IF book = NoRow THEN FALSE ELSE NeverUsed(book)

\* What GET /api/analytics/never-used evaluates for one book: the flag of its
\* current values and the flag of its values at one checkpoint.
EvaluateNeverUsed(id, snapshotDate) ==
  /\ Quiet
  /\ id \in DOMAIN books
  /\ \E allLogs \in getAuditLogs(audit_logs, [bookId |-> id, limit |-> SnapshotLimit], USE_SQLITE) :
       response' = [op |-> "evaluate", id |-> id,
                    current |-> isBookNeverUsed(id),
                    snapshot |-> Snapshot(id, books[id], snapshotDate, allLogs)]
  /\ UNCHANGED <<USE_SQLITE, containers, analytics, clock, books, users, audit_logs, calls, nrequests,
                 history, appliedAt, auditFailed>>

\* ------------------------------------------------- generateWeeklySnapshots
\* In the trend the clock counts days: an event of day d lies after the
\* checkpoint of day c, the end of that day, exactly when d > c.

\* A variant that cuts the fraction off.
PercentageTruncated(count, total) ==
  IF total > 0 THEN (count * 100) \div total ELSE 0

\* Math.round(n / d) for n >= 0, d > 0: the nearest integer, halves upwards.
\* Exact for the doubles of the route as long as count * 100 / total is no
\* exact half, which takes a total that is a multiple of 8.
MathRound(n, d) == (2 * n + d) \div (2 * d)

\* total > 0 ? Math.round((count / total) * 100) : 0
Percentage(count, total) ==
  IF total > 0 THEN MathRound(count * 100, total) ELSE 0

\* weekEndDate of iteration i: the end of the day i * 7 days before now
WeekEndDate(now, i) == now - i * DaysPerWeek

\* A variant that takes every listed book to have existed.
ExistedAlways(book, weekEndDate) == TRUE

\* new Date(book.date_added) <= weekEndDate
ExistedAt(book, weekEndDate) == book.date_added <= weekEndDate

existingBooks(listed, weekEndDate) ==
  {b \in DOMAIN listed : ExistedAt(listed[b], weekEndDate)}

\* One iteration of the loop: the point of week i.  neverUsedFlags is the
\* local of that name, kept by book.
WeeklySnapshot(listed, fetched, now, i) ==
  LET weekEndDate == WeekEndDate(now, i)
      existing == existingBooks(listed, weekEndDate)
      flags == [b \in existing |-> Snapshot(b, listed[b], weekEndDate, fetched[b]).result]
      neverUsedCount == Cardinality({b \in existing : flags[b]})
  IN  [weekEndDate |-> weekEndDate,
       neverUsedFlags |-> flags,
       neverUsedCount |-> neverUsedCount,
       totalBooks |-> Cardinality(existing),
       percentage |-> Percentage(neverUsedCount, Cardinality(existing))]

\* A variant that appends the point.
Push(snapshots, point) == Append(snapshots, point)

\* snapshots.unshift(point)
Unshift(snapshots, point) == <<point>> \o snapshots

\* for (let i = 0; i < weeks; i++) { ... }, from iteration i on
RECURSIVE SnapshotsFrom(_, _, _, _, _, _)
SnapshotsFrom(i, weeks, snapshots, listed, fetched, now) ==
  IF i >= weeks THEN snapshots
  ELSE SnapshotsFrom(i + 1, weeks,
                     Unshift(snapshots, WeeklySnapshot(listed, fetched, now, i)),
                     listed, fetched, now)

generateWeeklySnapshots(listed, weeks, fetched, now) ==
  SnapshotsFrom(0, weeks, <<>>, listed, fetched, now)

\* What the getAuditLogs calls of one request return, by book.  The order the
\* store gives to events of equal timestamp is taken to be the same in every
\* call of the request.
FetchChoices(ids) ==
  {fetched \in [ids -> UNION {getAuditLogs(audit_logs, [bookId |-> b, limit |-> SnapshotLimit],
                                           USE_SQLITE) : b \in ids}] :
     \A b \in ids :
       fetched[b] \in getAuditLogs(audit_logs, [bookId |-> b, limit |-> SnapshotLimit],
                                   USE_SQLITE)}

\* ------------------------------------------- GET /api/analytics/never-used
\* searchParams.get('user'): absent, empty, 'all' or a name
UserFilters == {NULL, "", "all", "alice", "carol"}

NoFailure == [call |-> "none", book |-> "", week |-> 0]
NoCurrent == [count |-> 0, total |-> 0, percentage |-> 0]

\* A variant that lists every book, whatever the filter.
GetNeverUsedListUnfiltered(userFilter) ==
  /\ analytics.pc = "idle"
  /\ response = NoResponse
  /\ analytics' = [pc |-> "listed", userFilter |-> userFilter, books |-> books,
                   neverUsedFlags |-> NoUpdates]
  /\ UNCHANGED <<USE_SQLITE, containers, clock, books, users, audit_logs, calls, nrequests, response,
                 history, appliedAt, auditFailed>>

\* getAllBooks, and the owner filter when a user other than 'all' is given
GetNeverUsedList(userFilter) ==
  /\ analytics.pc = "idle"
  /\ response = NoResponse
  /\ analytics' =
       [pc |-> "listed", userFilter |-> userFilter,
        books |-> [b \in {x \in DOMAIN books :
                            userFilter \in {NULL, "", "all"} \/ books[x].owner = userFilter}
                     |-> books[b]],
        neverUsedFlags |-> NoUpdates]
  /\ UNCHANGED <<USE_SQLITE, containers, clock, books, users, audit_logs, calls, nrequests, response,
                 history, appliedAt, auditFailed>>

\* Promise.all(books.map(book => isBookNeverUsed(book.id)))
GetNeverUsedCurrent ==
  /\ analytics.pc = "listed"
  /\ analytics' = [analytics EXCEPT
       !.pc = "current",
       !.neverUsedFlags = [b \in DOMAIN analytics.books |-> isBookNeverUsed(b)]]
  /\ UNCHANGED <<USE_SQLITE, containers, clock, books, users, audit_logs, calls, nrequests, response,
                 history, appliedAt, auditFailed>>

CurrentStats(flags) ==
  LET count == Cardinality({b \in DOMAIN flags : flags[b]})
      total == Cardinality(DOMAIN flags)
  IN  [count |-> count, total |-> total, percentage |-> Percentage(count, total)]

\* generateWeeklySnapshots(books, 12) and the success response.  request and
\* now are ghosts: the request answered and the day it was answered on.
GetNeverUsedWeekly ==
  /\ analytics.pc = "current"
  /\ \E fetched \in FetchChoices(DOMAIN analytics.books) :
       response' = [op |-> "neverUsed", success |-> TRUE,
                    current |-> CurrentStats(analytics.neverUsedFlags),
                    weekly |-> generateWeeklySnapshots(analytics.books, Weeks, fetched, clock),
                    request |-> analytics, now |-> clock, failed |-> NoFailure]
  /\ analytics' = IdleAnalytics
  /\ UNCHANGED <<USE_SQLITE, containers, clock, books, users, audit_logs, calls, nrequests,
                 history, appliedAt, auditFailed>>

\* The store calls the request is about to make, any of which can throw:
\* getAllBooks, then getBookById for each listed book, then getAuditLogs for
\* each book of each week.
FailWeeks == 0..(Weeks - 1)

StoreCalls(request, now) ==
  IF request.pc = "idle" THEN {[call |-> "getAllBooks", book |-> "", week |-> 0]}
  ELSE IF request.pc = "listed"
  THEN {[call |-> "getBookById", book |-> b, week |-> 0] : b \in DOMAIN request.books}
  ELSE {[call |-> "getAuditLogs", book |-> bw[1], week |-> bw[2]] :
          bw \in {x \in (DOMAIN request.books) \X FailWeeks :
                    x[1] \in existingBooks(request.books, WeekEndDate(now, x[2]))}}

\* A variant whose catch answers with what the request has so far.
GetNeverUsedThrowsPartial ==
  /\ response = NoResponse
  /\ \E failed \in StoreCalls(analytics, clock) :
       response' = [op |-> "neverUsed", success |-> TRUE,
                    current |-> CurrentStats(analytics.neverUsedFlags),
                    weekly |-> <<>>,
                    request |-> analytics, now |-> clock, failed |-> failed]
  /\ analytics' = IdleAnalytics
  /\ UNCHANGED <<USE_SQLITE, containers, clock, books, users, audit_logs, calls, nrequests,
                 history, appliedAt, auditFailed>>

\* A store call throws: the catch of GET answers 500 with success false.
GetNeverUsedThrows ==
  /\ response = NoResponse
  /\ \E failed \in StoreCalls(analytics, clock) :
       response' = [op |-> "neverUsed", success |-> FALSE,
                    current |-> NoCurrent, weekly |-> <<>>,
                    request |-> analytics, now |-> clock, failed |-> failed]
  /\ analytics' = IdleAnalytics
  /\ UNCHANGED <<USE_SQLITE, containers, clock, books, users, audit_logs, calls, nrequests,
                 history, appliedAt, auditFailed>>

\* ------------------------------------------------------------- createBook
\* POST /api/books: the book starts unread, date_added is today.  Ids are not
\* used twice.
CreateBook(id, owner) ==
  /\ Quiet
  /\ nrequests < MaxRequests
  /\ id \notin DOMAIN history
  /\ nrequests' = nrequests + 1
  /\ books' = books @@ (id :> [SeedBook(owner) EXCEPT !.date_added = clock])
  /\ history' = history @@
       (id :> [f \in HistoryFields |->
                 <<[t |-> clock, v |-> SeedBook(owner)[f], by |-> "createBook"]>>])
  /\ calls' = Served
  /\ UNCHANGED <<USE_SQLITE, containers, analytics, clock, users, audit_logs, response, appliedAt,
                 auditFailed>>

\* The next day begins.
DayTick ==
  /\ Quiet
  /\ analytics.pc = "idle"
  /\ clock < MaxDay
  /\ clock' = clock + 1
  /\ UNCHANGED <<USE_SQLITE, containers, analytics, books, users, audit_logs, calls, nrequests, response,
                 history, appliedAt, auditFailed>>

\* The days on which the writes of the trend arrive, and the writes.
RequestDays == {0, 3, 10, 20}

TrendRequests ==
  {<<"1", [current_possessor |-> "bob"]>>, <<"1", [times_read |-> 1]>>,
   <<"2", [times_read |-> 1]>>}

\* The values PUT /api/books/[id] lets times_read take (it checks none), and
\* the rows of book "1" they give, with at most one times_read event behind.
TimesReadValues == {-1, 0, 1}

\* String(oldValue) of a times_read the row held before the event: a number,
\* or null (PUT passes a body's times_read: null on, and the column takes it).
OldTimesReadTexts(row) ==
  {NumberToString(n) : n \in TimesReadValues \ {row.times_read}} \cup {"null"}

PredicateRows ==
  {[SeedBook(owner) EXCEPT !.times_read = n, !.current_possessor = possessor] :
     n \in TimesReadValues, owner \in {"alice", "bob"}, possessor \in {"alice", "bob"}}

PredicateTables(row) ==
  {<<>>} \cup
  {<<[id |-> 1, changed_field |-> "times_read", old_value |-> text,
      new_value |-> NumberToString(row.times_read), changed_by |-> "system",
      timestamp |-> 1, book_id |-> "1"]>> : text \in OldTimesReadTexts(row)}

InitPredicate ==
  /\ USE_SQLITE \in BOOLEAN
  /\ clock = 1
  /\ \E row \in PredicateRows :
       /\ books = [b \in BookIds |-> IF b = "1" THEN row ELSE SeedBook("bob")]
       /\ audit_logs \in PredicateTables(row)
  /\ history = [b \in BookIds |-> [f \in HistoryFields |->
       IF b = "1" /\ f = "times_read" /\ Len(audit_logs) = 1
       THEN <<[t |-> 0, v |-> parseInt(audit_logs[1].old_value), by |-> "createBook"],
              [t |-> 1, v |-> books[b][f], by |-> "updateBook"]>>
       ELSE <<[t |-> 0, v |-> books[b][f], by |-> "createBook"]>>]]
  /\ appliedAt = [i \in 1..Len(audit_logs) |-> 1]
  /\ users = [u \in UserIds |-> IF u = "1" THEN "alice" ELSE "bob"]
  /\ calls = [p \in CallIds |-> IdleCall]
  /\ nrequests = 0
  /\ response = NoResponse
  /\ auditFailed = {}
  /\ analytics = IdleAnalytics
  /\ containers = SeedContainers

\* ------------------------------------------------------------- containers
\* getContainerChildren(parentId): the rows whose parent_container_id is parentId
getContainerChildren(parentId) ==
  {c \in DOMAIN containers : containers[c].parent_container_id = parentId}

\* collectContents(id) of getAllContainerContentsRecursive: visits the
\* children of id and then, recursively, each child. depth is the number of
\* nested calls still allowed; the result is whether the visit finishes
\* within it. In a table without a cycle no chain of children is longer than
\* the table, so a visit that needs more nested calls than there are rows
\* never finishes.
RECURSIVE collectContents(_, _)
collectContents(id, depth) ==
  IF depth = 0 THEN FALSE
  ELSE \A child \in getContainerChildren(id) : collectContents(child, depth - 1)

getAllContainerContentsRecursive(containerId) ==
  collectContents(containerId, Cardinality(DOMAIN containers) + 1)

\* isDescendant(potentialDescendantId, ancestorId) of validateContainerMove,
\* with the same bound on nested calls.
RECURSIVE isDescendant(_, _, _)
isDescendant(potentialDescendantId, ancestorId, depth) ==
  IF potentialDescendantId \notin DOMAIN containers THEN FALSE
  ELSE LET container == containers[potentialDescendantId]
       IN  IF container.parent_container_id = NULL THEN FALSE
           ELSE IF container.parent_container_id = ancestorId THEN TRUE
           ELSE IF depth = 0 THEN FALSE
           ELSE isDescendant(container.parent_container_id, ancestorId, depth - 1)

\* validateContainerMove(containerId, newParentId). No route handler and no
\* function of db.ts calls it.
validateContainerMove(containerId, newParentId) ==
  IF newParentId = NULL THEN TRUE
  ELSE IF containerId = newParentId THEN FALSE
  ELSE ~isDescendant(newParentId, containerId, Cardinality(DOMAIN containers))

\* body.parent_container_id of a request: absent (Undefined), null or ''
\* (NULL), or a text. On SQLite ids are consecutive integers, so a request
\* can name the id the next row will get; on Postgres ids are random UUIDs
\* and a request can only name ids that exist or that never will.
ParentInputs == ContainerIds \cup {NULL, Undefined}

\* POST /api/containers with createContainer: name and owner are required,
\* parent_container_id is stored as sent (body.parent_container_id ||
\* undefined, then || null), without a lookup of the parent.
CreateContainer(name, parent) ==
  LET id == NumberToString(Cardinality(DOMAIN containers) + 1)
      parent_container_id == IF parent = Undefined THEN NULL ELSE parent
  IN  /\ Cardinality(DOMAIN containers) < MaxContainers
      /\ USE_SQLITE \/ parent # id
      /\ containers' =
           [c \in DOMAIN containers \cup {id} |->
              IF c = id
              THEN [name |-> name, parent_container_id |-> parent_container_id,
                    is_household |-> FALSE]
              ELSE containers[c]]
      /\ UNCHANGED <<USE_SQLITE, clock, books, users, audit_logs, calls, nrequests,
                     response, history, appliedAt, auditFailed, analytics>>

\* updates as PUT /api/containers/[id] builds it: a key for every field the
\* body has; parent_container_id is body.parent_container_id || undefined,
\* so null and '' give a key whose value is undefined.
ContainerUpdates(name, parent) ==
  [k \in (IF name = Undefined THEN {} ELSE {"name"}) \cup
         (IF parent = Undefined THEN {} ELSE {"parent_container_id"}) |->
     IF k = "name" THEN name
     ELSE IF parent = NULL THEN Undefined ELSE parent]

\* updateContainer(id, updates). SQLite: sets the keys whose value is
\* defined, throws 'No fields to update' when there is none, and changes no
\* row when id is unknown. Postgres: throws 'Container not found' when id
\* is unknown, otherwise writes {...currentContainer, ...updates} with
\* parent_container_id || null, so a key whose value is undefined clears
\* the parent. Neither path looks at the rows the new parent leads to.
updateContainer(id, updates) ==
  IF id \notin DOMAIN containers THEN containers
  ELSE IF USE_SQLITE
  THEN LET defined == {k \in DOMAIN updates : updates[k] # Undefined}
       IN  IF defined = {} THEN containers
           ELSE [containers EXCEPT ![id] =
                   [f \in DOMAIN containers[id] |->
                      IF f \in defined THEN updates[f] ELSE containers[id][f]]]
  ELSE LET updatedData == [f \in DOMAIN containers[id] |->
                             IF f \in DOMAIN updates THEN updates[f]
                             ELSE containers[id][f]]
       IN  [containers EXCEPT ![id] =
              [updatedData EXCEPT !.parent_container_id =
                 IF updatedData.parent_container_id = Undefined THEN NULL
                 ELSE updatedData.parent_container_id]]

\* PUT /api/containers/[id]
UpdateContainer(id, name, parent) ==
  /\ containers' = updateContainer(id, ContainerUpdates(name, parent))
  /\ UNCHANGED <<USE_SQLITE, clock, books, users, audit_logs, calls, nrequests,
                 response, history, appliedAt, auditFailed, analytics>>

\* --------------------------------------------------------- specifications
UpdateBook ==
  \/ \E r \in UpdateRequests : UpdateBookRead(1, r[1], r[2])
  \/ UpdateBookWrite(1)
  \/ UpdateBookAudit(1)
  \/ UpdateBookAuditFail(1)

Analytics ==
  \E id \in BookIds, snapshotDate \in 0..MaxTime : WasBookNeverUsedAtTime(id, snapshotDate)

\* Books change through updateBook alone; the analytics read them back.
NextReplay ==
  \/ Tick
  \/ UpdateBook
  \/ Analytics
  \/ Respond

SpecReplay == Init /\ [][NextReplay]_vars

\* The audit query over the tables updateBook leaves.
NextQuery ==
  \/ \E filters \in QueryFilters : GetAuditLogs(filters)
  \/ Respond

SpecQuery == InitQuery /\ [][NextQuery]_vars

\* The two never-used rules, over the rows that book "1" can hold.
NextPredicate ==
  \/ \E snapshotDate \in 0..1 : EvaluateNeverUsed("1", snapshotDate)
  \/ Respond

SpecPredicate == InitPredicate /\ [][NextPredicate]_vars

\* The trend over days: writes arrive one at a time, each done within its
\* day, and analytics requests are served between them.
NextTrend ==
  \/ DayTick
  \/ /\ analytics.pc = "idle"
     /\ clock \in RequestDays
     /\ \/ \E r \in TrendRequests : UpdateBookRead(1, r[1], r[2])
        \/ CreateBook("3", "alice")
  \/ UpdateBookWrite(1)
  \/ UpdateBookAudit(1)
  \/ Quiet /\ \E userFilter \in UserFilters : GetNeverUsedList(userFilter)
  \/ GetNeverUsedCurrent
  \/ GetNeverUsedWeekly
  \/ Quiet /\ GetNeverUsedThrows
  \/ Respond

SpecTrend == Init /\ [][NextTrend]_vars

\* Every request that writes the books, the users or the audit log.
NextWindow ==
  \/ Analytics
  \/ Respond
SpecWindow == InitWindow /\ [][NextWindow]_vars

\* What one updateBook call that runs alone does on one of the stores:
\* whether it throws before its write, the row it leaves, and the events its
\* audit loop appends.
UpdateOutcome(sqlite, existingBook, updates) ==
  LET failed == IF sqlite THEN DefinedKeys(updates) = {}
                ELSE PostgresRejects(existingBook, updates)
      logged == SelectSeq(trackedFields,
                          LAMBDA field : NeedsAudit(existingBook, updates, field))
  IN  [failed |-> failed,
       row |-> IF failed THEN existingBook
               ELSE IF sqlite THEN SqliteRow(existingBook, updates)
               ELSE PostgresRow(existingBook, updates),
       events |-> IF failed THEN <<>>
                  ELSE [k \in 1..Len(logged) |->
                          [changed_field |-> logged[k],
                           old_value |-> String(logged[k], existingBook[logged[k]]),
                           new_value |-> String(logged[k], updates[logged[k]])]]]

\* The same call made on the SQLite path and on the Postgres path.
UpdateBookOnBothPaths(id, updates) ==
  /\ Quiet
  /\ id \in DOMAIN books
  /\ response' = [op |-> "updateBookPaths", id |-> id, updates |-> updates,
                  sqlite |-> UpdateOutcome(TRUE, getBookById(id), updates),
                  postgres |-> UpdateOutcome(FALSE, getBookById(id), updates)]
  /\ UNCHANGED <<USE_SQLITE, containers, analytics, clock, books, users, audit_logs, calls, nrequests,
                 history, appliedAt, auditFailed>>

\* The updates objects PUT /api/books/[id] passes on, the empty one included.
PathInputs == UpdateInputs \cup {NoUpdates}

NextPaths ==
  \/ \E updates \in PathInputs : UpdateBookOnBothPaths("1", updates)
  \/ Respond
SpecPaths == InitPredicate /\ [][NextPaths]_vars

\* The analytics request over the rows PUT can leave, with no writer running.
NextBaseline ==
  \/ Quiet /\ \E userFilter \in UserFilters : GetNeverUsedList(userFilter)
  \/ GetNeverUsedCurrent
  \/ GetNeverUsedWeekly
  \/ Respond
SpecBaseline == InitPredicate /\ [][NextBaseline]_vars

\* Two updateBook calls whose steps interleave: a call can begin while the
\* other is between its read, its write and its audit appends.
NextConcurrent ==
  \/ Tick
  \/ \E p \in CallIds, updates \in UpdateInputs :
       /\ calls[p].pc = "idle"
       /\ response = NoResponse
       /\ UpdateBookBegin(p, "1", updates)
  \/ \E p \in CallIds : UpdateBookWrite(p)
  \/ \E p \in CallIds : UpdateBookAudit(p)
SpecConcurrent == Init /\ [][NextConcurrent]_vars

\* The analytics request with writers running between its store calls.
NextRace ==
  \/ Tick
  \/ \E r \in TrendRequests : UpdateBookRead(1, r[1], r[2])
  \/ UpdateBookWrite(1)
  \/ UpdateBookAudit(1)
  \/ \E id \in BookIds : DeleteBook(id)
  \/ Quiet /\ \E userFilter \in UserFilters : GetNeverUsedList(userFilter)
  \/ GetNeverUsedCurrent
  \/ GetNeverUsedWeekly
  \/ Respond
SpecRace == Init /\ [][NextRace]_vars

\* Container requests only: POST /api/containers and PUT /api/containers/[id].
NextContainers ==
  \/ \E name \in ContainerNames, parent \in ParentInputs : CreateContainer(name, parent)
  \/ \E id \in ContainerIds, name \in ContainerNames \cup {Undefined},
        parent \in ParentInputs : UpdateContainer(id, name, parent)

SpecContainers == Init /\ [][NextContainers]_vars

Next ==
  \/ Tick
  \/ UpdateBook
  \/ \E id \in UserIds : UpdateUser(id, "carol")
  \/ \E id \in UserIds, reassignTo \in UserIds \cup {""} : DeleteUser(id, reassignTo)
  \/ \E id \in BookIds : DeleteBook(id)

Spec == Init /\ [][Next]_vars


\* ================================================================ claims
IsSnapshot == response.op = "wasBookNeverUsedAtTime"

\* The value a snapshot holds for a field it reconstructed.
SnapshotValue(field) ==
  IF field = "times_read" THEN response.timesReadAtSnapshot
  ELSE IF field = "current_possessor" THEN response.possessorAtSnapshot
  ELSE response.ownerAtSnapshot

\* An old_value of the audit log, decoded as the snapshot decodes it.
Decoded(field, text) == IF field = "times_read" THEN parseInt(text) ELSE text

\* The audit events of one field of one book, as positions of the table.
EventsOf(id, field) ==
  {i \in 1..Len(audit_logs) :
     audit_logs[i].book_id = id /\ audit_logs[i].changed_field = field}

EventsOfBook(id) == {i \in 1..Len(audit_logs) : audit_logs[i].book_id = id}

EventsAfter(id, field, asOf) ==
  {i \in EventsOf(id, field) : audit_logs[i].timestamp > asOf}

Earliest(S) == {i \in S : \A j \in S : audit_logs[i].timestamp <= audit_logs[j].timestamp}

\* Ghost: the value the row of a book held for a field at the end of a tick.
HeldAt(id, field, asOf) ==
  LET h == history[id][field]
      past == {k \in 1..Len(h) : h[k].t <= asOf}
  IN  h[Max(past)].v

\* The preconditions of C1 on the book a snapshot was taken of.
OnlyUpdateBook(id) ==
  \A f \in HistoryFields : \A k \in 1..Len(history[id][f]) :
    history[id][f][k].by \in {"createBook", "updateBook"}

DistinctTimestamps(id) ==
  \A i, j \in EventsOfBook(id) :
    i # j => audit_logs[i].timestamp # audit_logs[j].timestamp

CompletedCalls(id) ==
  /\ OnlyUpdateBook(id)
  /\ id \notin auditFailed
  /\ DistinctTimestamps(id)
  /\ Cardinality(EventsOfBook(id)) <= SnapshotLimit

\* asOf falls between the row write of a change of the field and the
\* timestamp of the audit event of that change.
InWriteToLogWindow(id, field, asOf) ==
  \E i \in EventsOf(id, field) : appliedAt[i] <= asOf /\ asOf < audit_logs[i].timestamp

\* C1 as stated: after completed updateBook calls, with pairwise distinct
\* timestamps and at most 1000 events, every value a snapshot reconstructs
\* for asOf is the value the book row held at asOf.
C1_ReconstructionSound ==
  (IsSnapshot /\ CompletedCalls(response.id)) =>
    \A f \in response.reconstructed :
      SnapshotValue(f) = HeldAt(response.id, f, response.snapshotDate)

\* What the replay does guarantee of C1: the same, for every asOf that does
\* not fall between the row write of a change of the field and the timestamp
\* of its audit event.
C1_ReconstructionSoundOutsideWindow ==
  (IsSnapshot /\ CompletedCalls(response.id)) =>
    \A f \in response.reconstructed :
      ~InWriteToLogWindow(response.id, f, response.snapshotDate) =>
        SnapshotValue(f) = HeldAt(response.id, f, response.snapshotDate)

C1_Witness ==
  /\ IsSnapshot
  /\ CompletedCalls(response.id)
  /\ ~InWriteToLogWindow(response.id, "times_read", response.snapshotDate)
  /\ EventsAfter(response.id, "times_read", response.snapshotDate) # {}
  /\ EventsOf(response.id, "times_read")
       \ EventsAfter(response.id, "times_read", response.snapshotDate) # {}
  /\ response.timesReadAtSnapshot = 1
  /\ books[response.id].times_read = 2

C3_IdentityAtPresent ==
  (IsSnapshot /\ \A i \in EventsOfBook(response.id) :
                   audit_logs[i].timestamp <= response.snapshotDate) =>
    \A f \in response.reconstructed : SnapshotValue(f) = books[response.id][f]

C3_Witness ==
  /\ IsSnapshot
  /\ \A i \in EventsOfBook(response.id) : audit_logs[i].timestamp <= response.snapshotDate
  /\ \E i \in EventsOf(response.id, "current_possessor") :
       audit_logs[i].timestamp = response.snapshotDate
  /\ "current_possessor" \in response.reconstructed
  /\ response.possessorAtSnapshot = "bob"
  /\ response.result = FALSE

\* C4 as stated: when several events of a field share the smallest timestamp
\* after asOf, the reconstructed value is the old_value of the one with the
\* smallest id (on the SQLite store, whose ids count the insertions).
C4_TieBrokenBySmallerId ==
  (IsSnapshot /\ USE_SQLITE) =>
    \A f \in response.reconstructed :
      LET first == Earliest(EventsAfter(response.id, f, response.snapshotDate))
      IN  Cardinality(first) >= 2 =>
            SnapshotValue(f) = Decoded(f, audit_logs[Min(first)].old_value)

\* The events a finished call has appended.
AppendedFor(c, field) ==
  {k \in 1..Len(c.appended) : audit_logs[c.appended[k]].changed_field = field}

\* C5: a completed updateBook call has appended, for each tracked field,
\* exactly one event old -> new when the update carries the field and the
\* strings differ, and none otherwise; nothing for other fields.
C5_OneEventPerChangedField ==
  \A p \in CallIds :
    LET c == calls[p] IN
    c.pc = "done" =>
      /\ \A f \in TrackedSet :
           LET changed == /\ IsDefined(c.updates, f)
                          /\ String(f, c.existingBook[f]) # String(f, c.updates[f])
           IN  /\ Cardinality(AppendedFor(c, f)) = IF changed THEN 1 ELSE 0
               /\ \A k \in AppendedFor(c, f) :
                    /\ audit_logs[c.appended[k]].old_value = String(f, c.existingBook[f])
                    /\ audit_logs[c.appended[k]].new_value = String(f, c.updates[f])
                    /\ audit_logs[c.appended[k]].book_id = c.id
      /\ \A k \in 1..Len(c.appended) :
           audit_logs[c.appended[k]].changed_field \in TrackedSet
      /\ Len(c.appended) =
           Cardinality({f \in TrackedSet :
             /\ IsDefined(c.updates, f)
             /\ String(f, c.existingBook[f]) # String(f, c.updates[f])})

C5_Witness ==
  LET c == calls[1] IN
  /\ c.pc = "done"
  /\ Len(c.appended) = 1
  /\ DOMAIN c.updates = {"owner", "current_possessor"}
  /\ c.existingBook.current_possessor = "bob"
  /\ c.existingBook.owner = "alice"

\* The changes the row of a book has gone through for a field.
Changes(id, field) == Len(history[id][field]) - 1

\* C6 as stated: once no call is in flight, every change of a tracked field
\* of a book, by whichever operation, has its audit event (no createAuditLog
\* call having failed).
C6_EveryMutationLogged ==
  ((\A p \in CallIds : ~InFlight(p)) /\ auditFailed = {}) =>
    \A id \in BookIds : \A f \in HistoryFields :
      Cardinality(EventsOf(id, f)) = Changes(id, f)

\* The row holds every value the update asked for.
HoldsRequested(c) ==
  /\ c.id \in DOMAIN books
  /\ \A k \in DefinedKeys(c.updates) : books[c.id][k] = c.updates[k]

\* C7: events are appended only once the row holds the requested values, and
\* after a createAuditLog failure the row still holds them and the events
\* the call had appended are still in the table.
C7_AuditFailureKeepsMutation ==
  \A p \in CallIds :
    LET c == calls[p] IN
    /\ (c.pc \in {"audit", "done"} /\ Len(c.appended) > 0) => HoldsRequested(c)
    /\ (c.pc = "failed" /\ c.error = "createAuditLog") =>
         /\ HoldsRequested(c)
         /\ \A k \in 1..Len(c.appended) :
              /\ c.appended[k] <= Len(audit_logs)
              /\ audit_logs[c.appended[k]].id = c.appended[k]
              /\ audit_logs[c.appended[k]].book_id = c.id

C7_Witness ==
  LET c == calls[1] IN
  /\ c.pc = "failed"
  /\ c.error = "createAuditLog"
  /\ Len(c.appended) = 1
  /\ books[c.id].owner = "bob"
  /\ c.existingBook.owner = "alice"

\* C8: no step removes or changes an audit event; the table only grows.
C8_AppendOnly ==
  [][/\ Len(audit_logs') >= Len(audit_logs)
     /\ SubSeq(audit_logs', 1, Len(audit_logs)) = audit_logs]_vars

C8_Witness ==
  \E i \in 1..Len(audit_logs) : audit_logs[i].book_id \notin DOMAIN books

IsQuery == response.op = "getAuditLogs" /\ response.ok

\* a comes after b in the total order (timestamp, id)
Newer(a, b) ==
  \/ a.timestamp > b.timestamp
  \/ a.timestamp = b.timestamp /\ a.id > b.id

\* C9 as stated: the rows come newest first in the total order (timestamp,
\* id), and they are the newest of the matching events under that order (on
\* the SQLite store, whose ids count the insertions).
C9_NewestFirstByTimestampAndId ==
  (IsQuery /\ USE_SQLITE) =>
    LET rows == response.rows
        returned == {rows[k].id : k \in 1..Len(rows)}
    IN  /\ \A k \in 1..(Len(rows) - 1) : Newer(rows[k], rows[k + 1])
        /\ \A i \in Matching(audit_logs, response.filters) \ returned :
             \A k \in 1..Len(rows) : Newer(rows[k], audit_logs[i])

\* C10 as stated: the result has at most as many rows as the limit the caller
\* supplied, and at most 50 when none was supplied.
C10_TruncatedToLimit ==
  IsQuery =>
    Len(response.rows) <=
      IF "limit" \in DOMAIN response.filters /\ response.filters.limit # NaN
      THEN response.filters.limit ELSE DefaultLimit

\* The events a query asks for: those of the book when bookId is given, of
\* the field when eventType is given and is not 'all'.
Wanted(filters) ==
  {i \in 1..Len(audit_logs) :
     /\ "bookId" \in DOMAIN filters => audit_logs[i].book_id = filters.bookId
     /\ ("eventType" \in DOMAIN filters /\ filters.eventType # "all")
          => audit_logs[i].changed_field = filters.eventType}

\* C11 as stated: the rows returned are events the filters ask for, none of
\* the newest `limit` of them is omitted, and when no event matches the
\* query answers with the empty sequence and not with an error.
C11_FiltersCombineWithAnd ==
  response.op = "getAuditLogs" =>
    LET rows == response.rows
        returned == {rows[k].id : k \in 1..Len(rows)}
        omitted == Wanted(response.filters) \ returned
    IN  /\ response.ok =>
             /\ returned \subseteq Wanted(response.filters)
             /\ Cardinality(returned) = Len(rows)
             /\ omitted # {} => Len(rows) >= EffectiveLimit(response.filters)
             /\ \A i \in omitted : \A k \in 1..Len(rows) :
                  rows[k].timestamp >= audit_logs[i].timestamp
        /\ Wanted(response.filters) = {} => (response.ok /\ rows = <<>>)

IsEvaluation == response.op = "evaluate"

\* The values a snapshot stands on, reconstructed or current.
ValuesAt(snapshot) ==
  LET after == logsAfterSnapshot(snapshot.allLogs, snapshot.snapshotDate)
  IN  [times_read |-> timesReadAtSnapshot(snapshot.book, after),
       current_possessor |-> possessorAtSnapshot(snapshot.book, after),
       owner |-> ownerAtSnapshot(snapshot.book, after)]

\* C12 as stated: isBookNeverUsed on the current values, and
\* wasBookNeverUsedAtTime on the reconstructed values, are true exactly when
\* times_read is 0 and current_possessor equals owner.
C12_TrueIffUnreadAndWithOwner ==
  IsEvaluation =>
    LET now == books[response.id]
        then == ValuesAt(response.snapshot)
    IN  /\ response.current <=> (now.times_read = 0 /\ now.current_possessor = now.owner)
        /\ response.snapshot.result <=>
             (then.times_read = 0 /\ then.current_possessor = then.owner)

\* C13 as stated: on one and the same value tuple (a snapshot with no event
\* after it stands on the current values) the rule of isBookNeverUsed and the
\* rule of wasBookNeverUsedAtTime give the same boolean.
C13_SameRuleNowAndThen ==
  (IsEvaluation /\ ValuesAt(response.snapshot) =
                     [f \in {"times_read", "current_possessor", "owner"} |->
                        books[response.id][f]]) =>
    response.current = response.snapshot.result

IsTrend == response.op = "neverUsed" /\ response.success

\* The books a user filter selects: all of them when it is absent (no user
\* parameter, or one with no value) or 'all'.
Catalog(userFilter) ==
  {b \in DOMAIN books : userFilter \in {NULL, "", "all"} \/ books[b].owner = userFilter}

Eligible(userFilter, weekEndDate) ==
  {b \in Catalog(userFilter) : books[b].date_added <= weekEndDate}

\* C14: in every trend point totalBooks is the number of books of the
\* filtered catalog added on or before the checkpoint, and a book added
\* after the checkpoint is neither counted nor evaluated there.
C14_EligibleSetExclusion ==
  IsTrend =>
    \A k \in 1..Len(response.weekly) :
      LET point == response.weekly[k]
          eligible == Eligible(response.request.userFilter, point.weekEndDate)
      IN  /\ point.totalBooks = Cardinality(eligible)
          /\ DOMAIN point.neverUsedFlags = eligible
          /\ point.neverUsedCount <= Cardinality(eligible)

C14_Witness ==
  /\ IsTrend
  /\ "3" \in DOMAIN books
  /\ \E k \in 1..Len(response.weekly) :
       /\ response.weekly[k].weekEndDate >= 0
       /\ response.weekly[k].weekEndDate < books["3"].date_added
       /\ response.weekly[k].totalBooks = 2
       /\ "3" \notin DOMAIN response.weekly[k].neverUsedFlags

\* p is a nearest integer of count / total * 100, and 0 for an empty total.
\* Which neighbour an exact half goes to is left open: Math.round takes the
\* upper one, but the double count / total * 100 of an exact half can fall
\* just below it (23 of 40 gives 57.49999999999999, hence 57).
IsRoundedPercentage(p, count, total) ==
  IF total = 0 THEN p = 0
  ELSE /\ 2 * p * total - total <= 200 * count
       /\ 200 * count <= 2 * p * total + total

\* C15: in every trend point and in the current aggregate, the count is the
\* number of books evaluated true, 0 <= count <= total, the percentage is
\* round(count / total * 100), 0 for an empty total, and lies in 0..100.
C15_CountAndPercentage ==
  IsTrend =>
    /\ \A k \in 1..Len(response.weekly) :
         LET point == response.weekly[k] IN
         /\ point.neverUsedCount =
              Cardinality({b \in DOMAIN point.neverUsedFlags : point.neverUsedFlags[b]})
         /\ 0 <= point.neverUsedCount /\ point.neverUsedCount <= point.totalBooks
         /\ IsRoundedPercentage(point.percentage, point.neverUsedCount, point.totalBooks)
         /\ 0 <= point.percentage /\ point.percentage <= 100
    /\ LET flags == response.request.neverUsedFlags IN
       /\ response.current.count = Cardinality({b \in DOMAIN flags : flags[b]})
       /\ response.current.total = Cardinality(DOMAIN flags)
       /\ 0 <= response.current.count /\ response.current.count <= response.current.total
       /\ IsRoundedPercentage(response.current.percentage, response.current.count,
                              response.current.total)
       /\ 0 <= response.current.percentage /\ response.current.percentage <= 100

C15_Witness ==
  /\ IsTrend
  /\ response.current.count = 2 /\ response.current.total = 3
  /\ response.current.percentage = 67
  /\ \E k \in 1..Len(response.weekly) :
       response.weekly[k].totalBooks = 0 /\ response.weekly[k].percentage = 0
  /\ \E k \in 1..Len(response.weekly) :
       response.weekly[k].neverUsedCount = 1 /\ response.weekly[k].totalBooks = 2

\* C16: the trend has one point per week i in 0..weeks-1, for the end of
\* the day 7*i days before now, oldest first: the checkpoints increase by 7
\* days from point to point and the last one is today's.
C16_OnePointPerWeekOldestFirst ==
  IsTrend =>
    /\ Len(response.weekly) = Weeks
    /\ \A k \in 1..Weeks :
         response.weekly[k].weekEndDate = response.now - 7 * (Weeks - k)
    /\ \A k \in 1..(Weeks - 1) :
         /\ response.weekly[k].weekEndDate < response.weekly[k + 1].weekEndDate
         /\ response.weekly[k + 1].weekEndDate - response.weekly[k].weekEndDate = 7
    /\ response.weekly[Weeks].weekEndDate = response.now

C16_Witness ==
  /\ IsTrend
  /\ response.now = 10
  /\ response.weekly[Weeks].weekEndDate = 10
  /\ response.weekly[Weeks - 1].totalBooks = 2
  /\ response.weekly[Weeks - 2].totalBooks = 0

\* The scenario of C17: book "1", added on day 0 unread and with its owner,
\* has its holder changed on day 10 and is read on day 20, by two updateBook
\* calls and nothing else; the trend is asked for on a checkpoint day from
\* day 21 on.
IsScenario ==
  /\ IsTrend
  /\ response.now >= 21 /\ response.now % 7 = 0
  /\ "1" \in DOMAIN response.request.books
  /\ books["1"].date_added = 0
  /\ Cardinality(EventsOfBook("1")) = 2
  /\ \E i \in EventsOf("1", "current_possessor") :
       /\ audit_logs[i].timestamp = 10
       /\ audit_logs[i].old_value = "alice" /\ audit_logs[i].new_value = "bob"
  /\ \E i \in EventsOf("1", "times_read") :
       /\ audit_logs[i].timestamp = 20
       /\ audit_logs[i].old_value = "0" /\ audit_logs[i].new_value = "1"

\* The flag of a book at the checkpoint of a day.
FlagOn(day, id) ==
  LET k == CHOOSE x \in 1..Len(response.weekly) : response.weekly[x].weekEndDate = day
  IN  response.weekly[k].neverUsedFlags[id]

\* C17: in the scenario the book counts as unused at the checkpoints of day 0
\* and day 7, and as used at those of day 14 and day 21.
C17_EndToEndScenario ==
  IsScenario =>
    /\ FlagOn(0, "1") = TRUE
    /\ FlagOn(7, "1") = TRUE
    /\ FlagOn(14, "1") = FALSE
    /\ FlagOn(21, "1") = FALSE
    /\ response.now > 21 => FlagOn(response.now, "1") = FALSE

C17_Witness ==
  /\ IsScenario
  /\ response.now = 28
  /\ <<FlagOn(0, "1"), FlagOn(7, "1"), FlagOn(14, "1"), FlagOn(21, "1")>>
       = <<TRUE, TRUE, FALSE, FALSE>>

\* C18: the current aggregate is taken over the books the user filter
\* selects (all books when it is absent or 'all'): total is their number,
\* count the number of them with times_read = 0 and current_possessor =
\* owner; every trend point is computed over those same books.
C18_CurrentAggregateOfSameFilter ==
  IsTrend =>
    LET selected == Catalog(response.request.userFilter) IN
    /\ response.current.total = Cardinality(selected)
    /\ response.current.count =
         Cardinality({b \in selected : /\ books[b].times_read = 0
                                       /\ books[b].current_possessor = books[b].owner})
    /\ \A k \in 1..Len(response.weekly) :
         /\ DOMAIN response.weekly[k].neverUsedFlags \subseteq selected
         /\ response.weekly[k].totalBooks =
              Cardinality({b \in selected :
                             books[b].date_added <= response.weekly[k].weekEndDate})

C18_Witness ==
  /\ IsTrend
  /\ response.request.userFilter = "alice"
  /\ Cardinality(DOMAIN books) = 3
  /\ response.current.total = 2
  /\ response.current.count = 1
  /\ response.weekly[Weeks].totalBooks = 2

\* C19 as stated: when the audit query of one book at one checkpoint fails,
\* the request still succeeds with all its trend points, and the point of
\* that checkpoint leaves the book out of both of its numbers.
C19_ReconstructionErrorsIsolated ==
  (response.op = "neverUsed" /\ response.failed.call = "getAuditLogs") =>
    /\ response.success
    /\ Len(response.weekly) = Weeks
    /\ \A k \in 1..Len(response.weekly) :
         LET point == response.weekly[k] IN
         point.weekEndDate = response.now - 7 * response.failed.week =>
           /\ response.failed.book \notin DOMAIN point.neverUsedFlags
           /\ point.totalBooks =
                Cardinality(Eligible(response.request.userFilter, point.weekEndDate)
                              \ {response.failed.book})

\* C20: a request during which a store call threw ends in the error
\* response, with no trend at all; a success carries all the points, each
\* computed from all the books eligible at its checkpoint.
C20_AllOrNothing ==
  response.op = "neverUsed" =>
    /\ response.failed # NoFailure => (~response.success /\ response.weekly = <<>>)
    /\ response.success =>
         /\ Len(response.weekly) = Weeks
         /\ \A k \in 1..Weeks :
              LET point == response.weekly[k]
                  listed == response.request.books
                  eligible == {b \in DOMAIN listed :
                                 listed[b].date_added <= point.weekEndDate}
              IN  /\ DOMAIN point.neverUsedFlags = eligible
                  /\ point.totalBooks = Cardinality(eligible)

C20_Witness ==
  /\ response.op = "neverUsed"
  /\ response.failed.call = "getAuditLogs"
  /\ response.failed.week = 1
  /\ response.request.pc = "current"
  /\ \E b \in DOMAIN response.request.neverUsedFlags : response.request.neverUsedFlags[b]
  /\ ~response.success

\* The times_read event a snapshot consulted, if any.
ConsultedTimesRead(snapshot) ==
  FieldLogs(logsAfterSnapshot(snapshot.allLogs, snapshot.snapshotDate), "times_read")

\* The text is no numeral of a non-negative integer.
DecodeFails(text) == parseInt(text) = NaN \/ parseInt(text) < 0

\* C21 as stated: when the times_read event a reconstruction consults has an
\* old_value that is no non-negative integer, the book is classified unused
\* exactly when the reconstructed holder is the reconstructed owner, and the
\* call reports the decode failure.
C21_DecodeFailureWarned ==
  (/\ IsEvaluation
   /\ Len(ConsultedTimesRead(response.snapshot)) > 0
   /\ DecodeFails(ClosestLog(ConsultedTimesRead(response.snapshot)).old_value)) =>
    /\ response.snapshot.result =
         (response.snapshot.possessorAtSnapshot = response.snapshot.ownerAtSnapshot)
    /\ response.snapshot.logged # <<>>

\* C22 as stated: a listed book that is gone when isBookNeverUsed looks it
\* up is counted neither in the current count nor in the current total.
C22_DeletedBookSkipped ==
  [][(analytics.pc = "listed" /\ analytics'.pc = "current") =>
       LET found == DOMAIN analytics.books \cap DOMAIN books
           current == CurrentStats(analytics'.neverUsedFlags)
       IN  /\ current.total = Cardinality(found)
           /\ current.count = Cardinality({b \in found : NeverUsed(books[b])})]_vars

\* The values the replay of a field gives when that field's events are
\* fetched alone, with the limit of the snapshot's fetch.
PerFieldValues(snapshot, field) ==
  {LET after == logsAfterSnapshot(logs, snapshot.snapshotDate)
   IN  IF Len(after) > 0 THEN Decoded(field, ClosestLog(after).old_value)
       ELSE snapshot.book[field] :
     logs \in getAuditLogs(audit_logs,
                           [bookId |-> snapshot.id, eventType |-> field,
                            limit |-> SnapshotLimit], USE_SQLITE)}

\* C23 as stated: the value a snapshot reconstructs for a field from its one
\* fetch of the book's newest events of all fields is a value the replay
\* gives from a fetch of that field's events alone with the same limit.
C23_SingleFetchEqualsPerField ==
  IsSnapshot =>
    \A field \in response.reconstructed :
      SnapshotValue(field) \in PerFieldValues(response, field)

\* The tracked values the predicate stands on, as one tuple.
TupleOf(row) == <<row.times_read, row.owner, row.current_possessor>>

\* C24 as stated: after one updateBook call on a book, and nothing else, a
\* snapshot that reconstructs all three values gives a tuple the row held:
\* the one before the call's write or the one after it.
C24_MultiFieldChangeReplaysConsistently ==
  (/\ IsSnapshot
   /\ nrequests = 1
   /\ calls[1].pc = "done"
   /\ calls[1].id = response.id
   /\ response.reconstructed = {"times_read", "current_possessor", "owner"}) =>
    <<response.timesReadAtSnapshot, response.ownerAtSnapshot, response.possessorAtSnapshot>>
      \in {TupleOf(calls[1].existingBook), TupleOf(books[response.id])}

\* Event i comes before event j in (timestamp, id) order.
Precedes(i, j) ==
  \/ audit_logs[i].timestamp < audit_logs[j].timestamp
  \/ audit_logs[i].timestamp = audit_logs[j].timestamp /\ i < j

\* The events of S that no other event of S lies between i and.
Predecessors(S, i) ==
  {j \in S : Precedes(j, i) /\ ~\E k \in S : Precedes(j, k) /\ Precedes(k, i)}

Latest(S) == {i \in S : ~\E k \in S : Precedes(i, k)}

\* No updateBook call is under way, and none on the book has failed at its
\* audit log; nothing but updateBook has written the book's tracked fields.
OnlyCompletedCalls(id) ==
  /\ \A p \in CallIds : ~InFlight(p)
  /\ id \notin auditFailed
  /\ OnlyUpdateBook(id)

\* C25: after completed, non-overlapping updateBook calls on a book and no
\* other writer, the events of each tracked field form a chain in
\* (timestamp, id) order: the old_value of each is the new_value of the one
\* before it, and the new_value of the last is String of the row's value.
C25_ChainInvariant ==
  \A id \in DOMAIN books :
    OnlyCompletedCalls(id) =>
      \A field \in TrackedSet :
        LET events == EventsOf(id, field) IN
        /\ \A i \in events : \A j \in Predecessors(events, i) :
             audit_logs[i].old_value = audit_logs[j].new_value
        /\ \A i \in Latest(events) :
             audit_logs[i].new_value = String(field, books[id][field])

C25_Witness ==
  /\ OnlyCompletedCalls("1")
  /\ "1" \in DOMAIN books
  /\ Cardinality(EventsOf("1", "times_read")) = 2
  /\ books["1"].times_read = 2
  /\ \E i, j \in EventsOf("1", "times_read") :
       /\ Precedes(j, i)
       /\ audit_logs[j].old_value = "0" /\ audit_logs[j].new_value = "1"
       /\ audit_logs[i].old_value = "1" /\ audit_logs[i].new_value = "2"

\* Two calls on the same book have both returned.
BothCompleted ==
  /\ calls[1].pc = "done" /\ calls[2].pc = "done"
  /\ calls[1].id = calls[2].id

\* C26 as stated: after two concurrent updateBook calls on a book have both
\* completed, every field a call set holds a value set for it, every event
\* has as old_value the value the row held just before the row write of its
\* call, and every tracked field that has events holds the new_value of the
\* latest of them.
C26_NoLockingNeeded ==
  BothCompleted =>
    LET id == calls[1].id IN
    /\ \A p \in CallIds : \A k \in DefinedKeys(calls[p].updates) :
         books[id][k] \in {calls[q].updates[k] :
                             q \in {x \in CallIds : k \in DefinedKeys(calls[x].updates)}}
    /\ \A p \in CallIds : \A n \in 1..Len(calls[p].appended) :
         LET log == audit_logs[calls[p].appended[n]] IN
         log.old_value = String(log.changed_field, calls[p].before[log.changed_field])
    /\ \A field \in TrackedSet : \A i \in Latest(EventsOf(id, field)) :
         audit_logs[i].new_value = String(field, books[id][field])

\* C27 as stated: in a response computed with no concurrent write, the
\* newest trend point, the one of the end of today, has the numbers of the
\* current aggregate.
C27_NewestPointEqualsCurrent ==
  IsTrend =>
    LET newest == response.weekly[Len(response.weekly)] IN
    /\ newest.weekEndDate = response.now
    /\ newest.neverUsedCount = response.current.count
    /\ newest.totalBooks = response.current.total
    /\ newest.percentage = response.current.percentage

\* C28 as stated: for the same row and the same updates object, the SQLite
\* path and the Postgres path of updateBook leave the same row, append the
\* same events and agree on whether the call fails.
C28_PathsEquivalent ==
  response.op = "updateBookPaths" =>
    /\ response.sqlite.failed = response.postgres.failed
    /\ response.sqlite.row = response.postgres.row
    /\ response.sqlite.events = response.postgres.events

UserNamesOf(table) == {table[u] : u \in DOMAIN table}

\* C29 as stated: when a user is deleted, every book that named the user as
\* owner or as current_possessor names the user the books were handed to
\* instead, on either store, and every book that named existing users
\* before the deletion names existing users after it.
C29_ReassignHandsBooksOver ==
  [][DOMAIN users' # DOMAIN users =>
       LET from == users[CHOOSE u \in DOMAIN users : u \notin DOMAIN users']
       IN  /\ \E to \in DOMAIN users' :
                \A b \in DOMAIN books :
                  /\ books[b].owner = from => books'[b].owner = users[to]
                  /\ books[b].current_possessor = from =>
                       books'[b].current_possessor = users[to]
           /\ \A b \in DOMAIN books :
                /\ books[b].owner \in UserNamesOf(users) =>
                     books'[b].owner \in UserNamesOf(users')
                /\ books[b].current_possessor \in UserNamesOf(users) =>
                     books'[b].current_possessor \in UserNamesOf(users')]_vars

\* C30 as stated: after any sequence of POST /api/containers and
\* PUT /api/containers/[id] requests no container is its own parent, no
\* chain of parent_container_id leads back to where it started, and
\* getAllContainerContentsRecursive finishes for every container.
C30_NoCircularReferences ==
  \A c \in DOMAIN containers :
    /\ containers[c].parent_container_id # c
    /\ ~isDescendant(c, c, Cardinality(DOMAIN containers))
    /\ getAllContainerContentsRecursive(c)

====
